---- MODULE Spec2Model ----
(***************************************************************************)
(* Promising Artist: the call/return protocol of collab() (src/src/collab.ts) *)
(* run by two engines, the Figma plugin and its UI (src/src/figma.ts),     *)
(* joined by postMessage channels that deliver in any order.               *)
(***************************************************************************)
EXTENDS Integers, Sequences, FiniteSets, Bags, TLC

\* Bounds of the model.
MaxCalls == 2        \* proxy calls one engine issues
MaxTotalCalls == 2   \* proxy calls both engines issue together
MaxInjected == 1     \* envelopes another sender hands to the handlers
MaxInjectCalls == 1  \* proxy calls made beside the injected envelopes

-----------------------------------------------------------------------------
\* JavaScript values, as far as the protocol tells them apart.

Undefined == [t |-> "undefined", v |-> ""]
Null == [t |-> "null", v |-> ""]
Num(n) == [t |-> "number", v |-> n]
Str(s) == [t |-> "string", v |-> s]
Err(m) == [t |-> "Error", v |-> m]
PromiseObject == [t |-> "Promise", v |-> ""]

\* What a method of the table may return, and what it may throw or reject with.
ReturnValues == {Undefined, Num("5")}
ThrownValues == {Err("boom"), Str("oops"), Null, Undefined}

\* The instanceof check left out: every returned value is sent as it is.
IsPromiseNever(value) == FALSE

\* value instanceof Promise
IsPromise(value) == value.t = "Promise"

\* ex instanceof Error ? ex.message : ex
ErrorToWire(ex) == IF ex.t = "Error" THEN Str(ex.v) ELSE ex

-----------------------------------------------------------------------------
\* The two sides and their adapters.

Sides == {"UI", "Plugin"}

\* FigmaPluginUI posts to the plugin, FigmaPlugin posts to the UI.
Other(s) == IF s = "UI" THEN "Plugin" ELSE "UI"

\* The engines: each collab() call makes one. The UI side may hold a second
\* one (a useCollab component mounted again); an engine is named by its side,
\* and the second one of the UI by "UI2".
Engines == Sides \cup {"UI2"}

\* The side (iframe) an engine runs on; its adapter's name is the side's.
SideOf(e) == IF e = "UI2" THEN "UI" ELSE e

\* The methods object each side passes to collab(): its own keys.
OwnKeys(s) == IF s = "Plugin" THEN {"add", "slow"} ELSE {}

\* Properties every object literal inherits from Object.prototype.
PrototypeKeys == {"toString"}

\* Whether the method is declared async (returns a Promise).
IsAsyncMethod(f) == f = "slow"

\* message.func in methods
InMethods(s, f) == f \in OwnKeys(s) \cup PrototypeKeys

\* typeof methods[f] === "function"
IsFunction(s, f) == f \in OwnKeys(s) \cup PrototypeKeys

\* The property names the code of one side accesses on its proxy.
ProxyNames(s) == IF s = "UI" THEN {"add", "slow", "missing", "toString"}
                 ELSE {"missing", "toString"}

\* The argument lists of a proxy call.
ArgLists == {<<>>, <<Num("2"), Num("3")>>}

\* message.args that is no array: the object {0: 7}, which cannot be spread.
NonIterableArgs == [i \in {0} |-> Num("7")]

\* Whether ...message.args can be evaluated.
IsIterable(args) == \E n \in 0..2 : DOMAIN args = 1..n

-----------------------------------------------------------------------------
\* Transaction ids and envelopes.

\* `${options.name}:${nextTransactionIndex++}`
MakeTransactionID(name, index) == [name |-> name, index |-> index]

\* The counter read but not incremented.
NextIndexStuck(index) == index

\* nextTransactionIndex++
NextIndex(index) == index + 1

CallMessage(id, func, args) ==
    [type |-> "call", transactionID |-> id, func |-> func, args |-> args,
     value |-> Undefined, ex |-> Undefined]

\* A return envelope; a field the code leaves out reads as undefined.
ReturnMessage(id, value, ex) ==
    [type |-> "return", transactionID |-> id, func |-> "", args |-> <<>>,
     value |-> value, ex |-> ex]

\* No transaction: the settledBy of a promise nothing has settled yet.
NoTransactionID == [name |-> "", index |-> -1]

-----------------------------------------------------------------------------
\* The transaction register, a Map from TransactionID to Transaction. The
\* Transaction holds the resolve and reject functions of one promise, which
\* the model names by the promise's position in promises[s].

EmptyMap == [id \in {} |-> 0]

\* The transaction not entered in the register.
MapSetNothing(map, id, transaction) == map

\* transactions.set(id, transaction)
MapSet(map, id, transaction) ==
    [k \in DOMAIN map \cup {id} |-> IF k = id THEN transaction ELSE map[k]]

\* The register read without the id: whichever transaction is pending.
MapGetAny(map, id) ==
    IF DOMAIN map = {} THEN 0 ELSE map[CHOOSE k \in DOMAIN map : TRUE]

\* transactions.get(id): the transaction, or 0 for undefined
MapGet(map, id) == IF id \in DOMAIN map THEN map[id] ELSE 0

\* The entry left in the register.
MapDeleteNothing(map, id) == map

\* transactions.delete(id)
MapDelete(map, id) == [k \in DOMAIN map \ {id} |-> map[k]]

\* Success decided by the presence of a value instead of the absence of ex.
IsSuccessByValue(message) == message.value # Undefined

\* message.ex === undefined || message.ex === null
IsSuccess(message) == message.ex = Undefined \/ message.ex = Null

\* resolve(value) or reject(reason) of a promise made by new Promise(...):
\* the first call settles it, every later call is ignored.
Settle(p, state, result, id) ==
    IF p.state = "pending"
    THEN [p EXCEPT !.state = state, !.result = result, !.settledBy = id,
                   !.settlements = @ + 1]
    ELSE [p EXCEPT !.settlements = @ + 1]

-----------------------------------------------------------------------------
VARIABLES
    transactions,          \* per engine: the Map TransactionID -> Transaction
    nextTransactionIndex,  \* per engine: the counter
    promises,              \* per engine: the promises the proxy returned, in order
    inbox,                 \* per side: envelopes posted to it, not yet handled
    handled,               \* per engine: the call envelopes its handler processed
    faults,                \* per engine: errors thrown out of the message handler
    onmessage,             \* per side: the engine whose handler is registered
    cleanupFunction,       \* per engine: what toHandleMessage returned
    cleaned,               \* per engine: the outcome of calling cleanupProxy()
    injected,              \* envelopes handed to a handler by another sender
    lastCall               \* the last proxy call made through a synchronous
                           \* adapter, with the envelopes it handed to sendMessage

lifecycle == <<onmessage, cleanupFunction, cleaned>>

\* No proxy call made yet.
NoCall == [engine |-> "", prop |-> "", args |-> <<>>, sent |-> <<>>]

vars == <<transactions, nextTransactionIndex, promises, inbox, handled, faults,
          onmessage, cleanupFunction, cleaned, injected, lastCall>>

Init ==
    /\ transactions = [s \in Engines |-> EmptyMap]
    /\ nextTransactionIndex = [s \in Engines |-> 0]
    /\ promises = [s \in Engines |-> <<>>]
    /\ inbox = [s \in Sides |-> EmptyBag]
    /\ handled = [s \in Engines |-> <<>>]
    /\ faults = [s \in Engines |-> {}]
    /\ onmessage = [s \in Sides |-> s]
    /\ cleanupFunction = [s \in Engines |-> IF s \in Sides THEN "cleanup" ELSE "none"]
    /\ cleaned = [s \in Engines |-> "no"]
    /\ injected = 0
    /\ lastCall = NoCall

-----------------------------------------------------------------------------
\* The proxy: proxy[prop](...args), lines 169-190.

ProxyCall(s, prop, args) ==
    /\ Len(promises[s]) < MaxCalls
    /\ Len(promises["UI"]) + Len(promises["UI2"]) + Len(promises["Plugin"])
          < MaxTotalCalls
    /\ LET id == MakeTransactionID(SideOf(s), nextTransactionIndex[s])
           p == [transactionID |-> id, func |-> prop, state |-> "pending",
                 result |-> Undefined, settledBy |-> NoTransactionID,
                 settlements |-> 0]
       IN /\ nextTransactionIndex' =
                 [nextTransactionIndex EXCEPT ![s] = NextIndex(@)]
          /\ promises' = [promises EXCEPT ![s] = Append(@, p)]
          /\ transactions' =
                 [transactions EXCEPT ![s] = MapSet(@, id, Len(promises[s]) + 1)]
          /\ inbox' = [inbox EXCEPT
                 ![Other(SideOf(s))] = @ (+) SetToBag({CallMessage(id, prop, args)})]
    /\ UNCHANGED <<handled, faults, lifecycle, injected, lastCall>>

-----------------------------------------------------------------------------
\* The message handler, lines 68-153.

\* What methods[func](...args) does when func is a function: the value it
\* returns or the value it throws. An async method returns a Promise.
MethodResults(s, func) ==
    IF func \in OwnKeys(s)
    THEN IF IsAsyncMethod(func)
         THEN {[kind |-> "return", v |-> PromiseObject]}
         ELSE [kind : {"return"}, v : ReturnValues]
              \cup [kind : {"throw"}, v : ThrownValues]
    ELSE {[kind |-> "return", v |-> Str("[object Object]")]}

\* Calling methods[func] when it is undefined throws a TypeError.
NotAFunction == [kind |-> "throw", v |-> Err("is not a function")]

\* Spreading message.args when it is not iterable throws a TypeError, before
\* the function is called.
NotIterable == [kind |-> "throw", v |-> Err("is not iterable")]

\* What the call at line 88 does: a TypeError, or what the method does.
CallOutcomes(s, message) ==
    IF ~IsIterable(message.args) THEN {NotIterable}
    ELSE IF IsFunction(s, message.func) THEN MethodResults(s, message.func)
    ELSE {NotAFunction}

\* The spread of message.args evaluated before the try block is entered.
CallFaultsSpreadOutsideTry(message, outcome) ==
    IF IsIterable(message.args) THEN {}
    ELSE {[kind |-> "TypeError", id |-> message.transactionID]}

\* The errors the call branch throws out of the handler: the try block holds
\* the spread, the call and the sends, and its catch block takes every throw.
CallFaults(message, outcome) == {}

\* The return envelopes the call branch sends for one outcome of the call, in
\* order (lines 74-129).
CallReplies(s, message, outcome) ==
    LET id == message.transactionID
        unknown ==
            IF ~InMethods(s, message.func)
            THEN <<ReturnMessage(id, Undefined, Err("Unknown method"))>>
            ELSE <<>>
        tried ==
            IF outcome.kind = "throw"
            THEN <<ReturnMessage(id, Undefined, ErrorToWire(outcome.v))>>
            ELSE IF IsPromise(outcome.v)
                 THEN <<>>
                 ELSE <<ReturnMessage(id, outcome.v, Undefined)>>
    IN unknown \o tried

SeqToBag(seq) ==
    LET F[i \in 0..Len(seq)] ==
            IF i = 0 THEN EmptyBag ELSE F[i - 1] (+) SetToBag({seq[i]})
    IN F[Len(seq)]

\* What one run of the call branch did: the function it called, what came
\* of the call, the Promise it left to settle, the envelopes it sent.
HandledRecord(s, message, outcome) ==
    LET isPromise == outcome.kind = "return" /\ outcome.v = PromiseObject
    IN [transactionID |-> message.transactionID,
        func |-> message.func,
        invoked |-> IsIterable(message.args) /\ IsFunction(s, message.func),
        outcome |-> outcome,
        promise |-> IF isPromise THEN "pending" ELSE "none",
        watched |-> outcome.kind = "return" /\ IsPromise(outcome.v),
        settledWith |-> Undefined,
        returns |-> CallReplies(s, message, outcome)]

CallBranch(s, message) ==
    \E outcome \in CallOutcomes(s, message) :
        LET replies == CallReplies(s, message, outcome)
            h == HandledRecord(s, message, outcome)
        IN /\ handled' = [handled EXCEPT ![s] = Append(@, h)]
           /\ inbox' = [inbox EXCEPT
                  ![SideOf(s)] = @ (-) SetToBag({message}),
                  ![Other(SideOf(s))] = @ (+) SeqToBag(replies)]
           /\ faults' = [faults EXCEPT ![s] = @ \cup CallFaults(message, outcome)]
           /\ UNCHANGED <<transactions, nextTransactionIndex, promises,
                          lifecycle, injected, lastCall>>

ReturnBranch(s, message) ==
    LET id == message.transactionID
        transaction == MapGet(transactions[s], id)
    IN /\ inbox' = [inbox EXCEPT ![SideOf(s)] = @ (-) SetToBag({message})]
       /\ IF transaction = 0
          THEN /\ faults' = [faults EXCEPT
                      ![s] = @ \cup {[kind |-> "UnknownTransaction", id |-> id]}]
               /\ UNCHANGED <<transactions, promises>>
          ELSE /\ promises' = [promises EXCEPT ![s][transaction] =
                      IF IsSuccess(message)
                      THEN Settle(@, "resolved", message.value, id)
                      ELSE Settle(@, "rejected", message.ex, id)]
               /\ transactions' = [transactions EXCEPT ![s] = MapDelete(@, id)]
               /\ UNCHANGED faults
       /\ UNCHANGED <<nextTransactionIndex, handled, lifecycle, injected, lastCall>>

UnknownTypeBranch(s, message) ==
    /\ inbox' = [inbox EXCEPT ![SideOf(s)] = @ (-) SetToBag({message})]
    /\ faults' = [faults EXCEPT ![s] = @ \cup
           {[kind |-> "UnknownMessageType", id |-> message.transactionID]}]
    /\ UNCHANGED <<transactions, nextTransactionIndex, promises, handled,
                   lifecycle, injected, lastCall>>

\* The adapter of its side hands one posted envelope to the handler of
\* engine s, which is the one registered (onmessage, figma.ui.onmessage).
HandleMessage(s) ==
    /\ onmessage[SideOf(s)] = s
    /\ \E message \in BagToSet(inbox[SideOf(s)]) :
        IF message.type = "call" THEN CallBranch(s, message)
        ELSE IF message.type = "return" THEN ReturnBranch(s, message)
        ELSE UnknownTypeBranch(s, message)

\* The Promise a method returned settles and its then/catch reaction runs
\* (lines 93-109).
SettleAsync(s) ==
    \E k \in DOMAIN handled[s] :
        /\ handled[s][k].promise = "pending"
        /\ \E state \in {"fulfilled", "rejected"} :
           \E v \in IF state = "fulfilled" THEN ReturnValues ELSE ThrownValues :
              LET h == handled[s][k]
                  reply == IF state = "fulfilled"
                           THEN ReturnMessage(h.transactionID, v, Undefined)
                           ELSE ReturnMessage(h.transactionID, Undefined,
                                              ErrorToWire(v))
                  replies == IF h.watched THEN <<reply>> ELSE <<>>
              IN /\ handled' = [handled EXCEPT ![s][k] =
                        [h EXCEPT !.promise = state, !.settledWith = v,
                                  !.returns = @ \o replies]]
                 /\ inbox' = [inbox EXCEPT
                        ![Other(SideOf(s))] = @ (+) SeqToBag(replies)]
        /\ UNCHANGED <<transactions, nextTransactionIndex, promises, faults,
                       lifecycle, injected, lastCall>>

Next ==
    \/ \E s \in Sides : \E prop \in ProxyNames(s) : \E args \in ArgLists :
          ProxyCall(s, prop, args)
    \/ \E s \in Sides : HandleMessage(s)
    \/ \E s \in Sides : SettleAsync(s)

Spec == Init /\ [][Next]_vars

-----------------------------------------------------------------------------
\* Helpers for the properties.

\* The promises of side s a proxy call with this id returned.
PromisesOf(s, id) == {i \in DOMAIN promises[s] : promises[s][i].transactionID = id}

\* The handler invocations of side s for a call envelope with this id.
HandledOf(s, id) == {k \in DOMAIN handled[s] : handled[s][k].transactionID = id}

\* A return envelope for this id is posted to side s and not yet handled.
ReturnInFlight(s, id) ==
    \E m \in BagToSet(inbox[s]) : m.type = "return" /\ m.transactionID = id

\* The method of the call has settled: it returned a value that is no
\* Promise, it threw, or the Promise it returned has settled.
MethodSettled(h) == h.promise # "pending"

\* The handler of side s takes this envelope out of its inbox in this step.
Handles(s, m) ==
    /\ m \in BagToSet(inbox[s])
    /\ inbox'[s] = inbox[s] (-) SetToBag({m})

-----------------------------------------------------------------------------
\* C1: for every call envelope the handler receives, the engine sends exactly
\* one return envelope with the call's transactionID: never two, and one once
\* the method has settled.
C1_ExactlyOneReturn ==
    \A s \in Sides : \A k \in DOMAIN handled[s] :
        LET h == handled[s][k]
        IN /\ Len(h.returns) <= 1
           /\ MethodSettled(h) => Len(h.returns) = 1
           /\ \A j \in DOMAIN h.returns :
                  h.returns[j].transactionID = h.transactionID

\* C2: a proxy call of a name that is not in the other side's method table
\* makes no message handler raise a fault.
C2_UnknownMethodRaisesNoFault ==
    \A s \in Sides : \A f \in faults[s] :
        \A c \in Sides : \A i \in PromisesOf(c, f.id) :
            promises[c][i].func \in OwnKeys(Other(c))

\* C3: when the remote method throws, or the promise it returned rejects, the
\* caller's promise is never resolved, and it is rejected once the return
\* envelope is processed.
C3_ThrowRejects ==
    \A s \in Sides : \A k \in DOMAIN handled[s] :
        LET h == handled[s][k]
        IN (/\ h.func \in OwnKeys(s)
            /\ h.outcome.kind = "throw" \/ h.promise = "rejected")
           => \A i \in PromisesOf(Other(s), h.transactionID) :
                  /\ promises[Other(s)][i].state # "resolved"
                  /\ ~ReturnInFlight(Other(s), h.transactionID)
                        => promises[Other(s)][i].state = "rejected"

\* C4: a promise is settled only by a return envelope with its own
\* transactionID, and with the value or error of a return envelope that was
\* sent for its own call.
C4_OwnReturnSettles ==
    \A s \in Sides : \A i \in DOMAIN promises[s] :
        LET p == promises[s][i]
        IN p.state # "pending" =>
              /\ p.settledBy = p.transactionID
              /\ \E k \in HandledOf(Other(s), p.transactionID) :
                    LET h == handled[Other(s)][k]
                    IN /\ h.func = p.func
                       /\ \E j \in DOMAIN h.returns :
                             \/ p.state = "resolved" /\ p.result = h.returns[j].value
                             \/ p.state = "rejected" /\ p.result = h.returns[j].ex

\* Two calls of one side are outstanding, and the return of the second is
\* processed while the return of the first is still in flight.
C4_Witness ==
    \E s \in Sides :
        /\ Len(promises[s]) >= 2
        /\ promises[s][2].state # "pending"
        /\ promises[s][1].state = "pending"
        /\ ReturnInFlight(s, promises[s][1].transactionID)

\* C5: every transactionID an engine mints differs from every one minted
\* before (by it or by the other engine), and lies below the counter, which
\* therefore never hands it out again.
C5_IDsDistinct ==
    /\ \A s \in Sides : \A i \in DOMAIN promises[s] :
          /\ promises[s][i].transactionID.name = s
          /\ promises[s][i].transactionID.index < nextTransactionIndex[s]
    /\ \A s, c \in Sides : \A i \in DOMAIN promises[s] : \A j \in DOMAIN promises[c] :
          (s # c \/ i # j) =>
              promises[s][i].transactionID # promises[c][j].transactionID

\* An engine has minted a second id after its first transaction was settled
\* and removed from the register.
C5_Witness ==
    \E s \in Sides :
        /\ Len(promises[s]) = 2
        /\ promises[s][1].state # "pending"
        /\ promises[s][1].transactionID \notin DOMAIN transactions[s]
        /\ promises[s][2].transactionID \in DOMAIN transactions[s]

\* C6: a settled promise stays as it is, and neither of its continuations is
\* invoked again; the step that handles a return envelope for an already
\* settled transaction changes no promise and no entry of the register.
C6_Step ==
    /\ \A s \in Sides : \A i \in DOMAIN promises[s] :
          promises[s][i].state # "pending" =>
              /\ i \in DOMAIN promises'[s]
              /\ promises'[s][i] = promises[s][i]
              /\ promises[s][i].settlements = 1
    /\ \A s \in Sides : \A m \in BagToSet(inbox[s]) :
          (/\ m.type = "return"
           /\ Handles(s, m)
           /\ \E i \in PromisesOf(s, m.transactionID) :
                 promises[s][i].state # "pending")
          => promises' = promises /\ transactions' = transactions

C6_AtMostOneSettlement == [][C6_Step]_vars

\* A second return envelope for a settled transaction has been handled while
\* another call of the same side is pending.
C6_Witness ==
    \E s \in Sides : \E f \in faults[s] :
        /\ \E i \in PromisesOf(s, f.id) : promises[s][i].state # "pending"
        /\ \E j \in DOMAIN promises[s] : promises[s][j].state = "pending"

\* C7: a call of a method of the remote table that returns a value v which is
\* no promise never rejects the caller's promise, and once its return envelope
\* is delivered the promise is resolved with v.
C7_SyncValueResolves ==
    \A s \in Sides : \A k \in DOMAIN handled[s] :
        LET h == handled[s][k]
        IN (/\ h.func \in OwnKeys(s)
            /\ h.outcome.kind = "return"
            /\ h.outcome.v # PromiseObject)
           => \A i \in PromisesOf(Other(s), h.transactionID) :
                 LET p == promises[Other(s)][i]
                 IN /\ p.state # "rejected"
                    /\ ~ReturnInFlight(Other(s), h.transactionID)
                          => p.state = "resolved" /\ p.result = h.outcome.v

\* A method that returns nothing has resolved the caller's promise with
\* undefined.
C7_Witness ==
    \E s \in Sides : \E k \in DOMAIN handled[s] :
        /\ handled[s][k].func = "add"
        /\ handled[s][k].outcome = [kind |-> "return", v |-> Undefined]
        /\ \E i \in PromisesOf(Other(s), handled[s][k].transactionID) :
              /\ promises[Other(s)][i].state = "resolved"
              /\ promises[Other(s)][i].result = Undefined

\* C8: while the promise a method returned is pending, no return envelope is
\* sent and the caller's promise is pending; once it has fulfilled with v,
\* exactly one return envelope, carrying v, is sent and the caller's promise
\* resolves once, to v, which is no promise.
C8_AsyncValueResolves ==
    \A s \in Sides : \A k \in DOMAIN handled[s] :
        LET h == handled[s][k]
        IN (h.outcome.kind = "return" /\ h.outcome.v = PromiseObject)
           => \A i \in PromisesOf(Other(s), h.transactionID) :
                 LET p == promises[Other(s)][i]
                 IN /\ h.promise = "pending" =>
                          h.returns = <<>> /\ p.state = "pending"
                    /\ h.promise = "fulfilled" =>
                          /\ h.returns =
                                <<ReturnMessage(h.transactionID, h.settledWith, Undefined)>>
                          /\ h.settledWith # PromiseObject
                          /\ p.state # "rejected"
                          /\ p.state = "resolved" =>
                                p.result = h.settledWith /\ p.settlements = 1
                          /\ ~ReturnInFlight(Other(s), h.transactionID)
                                => p.state = "resolved"

\* An async method has fulfilled with 5 and the caller's promise has resolved
\* to 5.
C8_Witness ==
    \E s \in Sides : \E k \in DOMAIN handled[s] :
        /\ handled[s][k].func = "slow"
        /\ handled[s][k].promise = "fulfilled"
        /\ handled[s][k].settledWith = Num("5")
        /\ \E i \in PromisesOf(Other(s), handled[s][k].transactionID) :
              /\ promises[Other(s)][i].state = "resolved"
              /\ promises[Other(s)][i].result = Num("5")

\* C9: a proxy call of a name that is absent from the remote method table
\* never resolves the caller's promise, and rejects it once a return envelope
\* has been delivered.
C9_UnknownMethodRejects ==
    \A s \in Sides : \A i \in DOMAIN promises[s] :
        LET p == promises[s][i]
        IN p.func \notin OwnKeys(Other(s)) =>
              /\ p.state # "resolved"
              /\ (/\ HandledOf(Other(s), p.transactionID) # {}
                  /\ ~ReturnInFlight(s, p.transactionID))
                 => p.state = "rejected"

\* C10: a call envelope whose function name is no key of the method table
\* passed to collab() invokes no local function.
C10_OnlyTableMethodsInvoked ==
    \A s \in Sides : \A k \in DOMAIN handled[s] :
        handled[s][k].func \notin OwnKeys(s) => ~handled[s][k].invoked

\* C11: the register of an engine holds exactly the ids of the proxy calls it
\* issued for which no return envelope has been processed yet, whether the
\* processed return carried a value or an error.
C11_RegisterIsPending ==
    \A s \in Sides :
        DOMAIN transactions[s] =
            {promises[s][i].transactionID :
                i \in {j \in DOMAIN promises[s] : promises[s][j].settlements = 0}}

\* One call of a side was removed by an error return and one by a value
\* return is still to come: the register holds the pending one only.
C11_Witness ==
    \E s \in Sides :
        /\ Len(promises[s]) = 2
        /\ promises[s][1].state = "rejected"
        /\ promises[s][2].state = "pending"
        /\ DOMAIN transactions[s] = {promises[s][2].transactionID}

\* C14: in every return envelope an engine sends with its error set, the error
\* is a message string.
C14_ErrorIsString ==
    \A s \in Sides : \A k \in DOMAIN handled[s] :
        \A j \in DOMAIN handled[s][k].returns :
            LET ex == handled[s][k].returns[j].ex
            IN ex \notin {Undefined, Null} => ex.t = "string"

-----------------------------------------------------------------------------
\* Liveness. The channel hands every posted envelope to the handler in the
\* end, and every Promise a method returned settles in the end.

FairSpec ==
    /\ Spec
    /\ \A s \in Sides : WF_vars(HandleMessage(s)) /\ WF_vars(SettleAsync(s))

\* Every promise a proxy call returned is settled and every register is empty.
AllSettled ==
    \A s \in Sides :
        /\ DOMAIN transactions[s] = {}
        /\ \A i \in DOMAIN promises[s] : promises[s][i].state # "pending"

\* C18: with a channel that delivers every envelope, no cleanup and methods
\* that settle, every promise is settled in the end and every register is
\* empty in the end, from the last proxy call on.
C18_EventuallySettled == <>[]AllSettled

\* Both engines have issued a call, and all is settled.
C18_Witness ==
    /\ AllSettled
    /\ \A s \in Sides : Len(promises[s]) >= 1
    /\ \E s \in Sides : \E k \in DOMAIN handled[s] : handled[s][k].promise = "rejected"

-----------------------------------------------------------------------------
\* Envelopes that no proxy sent. The handler processes whatever its adapter
\* hands to it: a call whose args is no array, an envelope of another type, a
\* return for an id this engine never issued.

ForeignID == [name |-> "Other", index |-> 0]

InjectedMessages ==
    {CallMessage(ForeignID, "add", NonIterableArgs),
     [CallMessage(ForeignID, "", <<>>) EXCEPT !.type = "ping"],
     ReturnMessage(ForeignID, Num("5"), Undefined)}

Inject(s, message) ==
    /\ injected < MaxInjected
    /\ injected' = injected + 1
    /\ inbox' = [inbox EXCEPT ![s] = @ (+) SetToBag({message})]
    /\ UNCHANGED <<transactions, nextTransactionIndex, promises, handled,
                   faults, lifecycle, lastCall>>

\* The proxy calls made beside the injected envelopes: one of a method that
\* returns or throws, one of an unknown name.
InjectProxyNames(s) == ProxyNames(s) \ {"slow", "toString"}

InjectNext ==
    \/ \E s \in Sides : \E prop \in InjectProxyNames(s) :
          /\ Len(promises["UI"]) + Len(promises["Plugin"]) < MaxInjectCalls
          /\ ProxyCall(s, prop, <<>>)
    \/ \E s \in Sides : HandleMessage(s)
    \/ \E s \in Sides : \E message \in InjectedMessages : Inject(s, message)

InjectSpec == Init /\ [][InjectNext]_vars

\* C12: processing a call envelope raises no fault out of the handler: the
\* handler returns, and when the method threw, the name was unknown or the
\* args could not be spread, it has sent a return envelope carrying the
\* thrown value (the message of a thrown Error) as its error.
C12_Step ==
    \A s \in Sides : \A m \in BagToSet(inbox[s]) :
        (m.type = "call" /\ Handles(s, m)) =>
            /\ faults' = faults
            /\ Len(handled'[s]) = Len(handled[s]) + 1
            /\ LET h == handled'[s][Len(handled'[s])]
               IN /\ h.transactionID = m.transactionID
                  /\ h.outcome.kind = "throw" =>
                        \E j \in DOMAIN h.returns :
                            /\ h.returns[j].transactionID = m.transactionID
                            /\ h.returns[j].ex =
                                  IF h.outcome.v.t = "Error"
                                  THEN Str(h.outcome.v.v) ELSE h.outcome.v
                            /\ BagIn(h.returns[j], inbox'[Other(s)])

C13_Step ==
    \A s \in Sides : \A m \in BagToSet(inbox[s]) :
        (/\ Handles(s, m)
         /\ \/ m.type = "return" /\ m.transactionID \notin DOMAIN transactions[s]
            \/ m.type \notin {"call", "return"})
        => /\ [kind |-> IF m.type = "return" THEN "UnknownTransaction"
                        ELSE "UnknownMessageType",
               id |-> m.transactionID] \in faults'[s]
           /\ promises' = promises
           /\ transactions' = transactions
           /\ handled' = handled
           /\ inbox'[Other(s)] = inbox[Other(s)]

C13_IntegrityFaultOnly == [][C13_Step]_vars

\* One handler has thrown both faults.
C13_Witness ==
    \E s \in Sides :
        {f.kind : f \in faults[s]} = {"UnknownTransaction", "UnknownMessageType"}

-----------------------------------------------------------------------------
\* Engines that come and go: a second engine on the UI side (useCollab in a
\* component that is mounted while or after the first one is unmounted), and
\* cleanupProxy(). Each side has one handler slot (onmessage,
\* figma.ui.onmessage); an envelope that arrives while it is empty is lost.

\* What toHandleMessage may return: a cleanup function, as FigmaPlugin and
\* FigmaPluginUI do, or nothing (CollabCleanupFunction | void).
AdapterResults == {"cleanup", "undefined"}

\* The handler slot left as it is.
ClearedSlotKept(slot, e) == slot

\* cleanup(): onmessage = null, figma.ui.onmessage = undefined
ClearedSlot(slot, e) == "none"

\* collab(methods, options) run again on the side of engine e: its
\* toHandleMessage assigns the handler slot.
CreateEngine(e, result) ==
    /\ cleanupFunction[e] = "none"
    /\ onmessage' = [onmessage EXCEPT ![SideOf(e)] = e]
    /\ cleanupFunction' = [cleanupFunction EXCEPT ![e] = result]
    /\ UNCHANGED <<transactions, nextTransactionIndex, promises, inbox,
                   handled, faults, cleaned, injected, lastCall>>

\* proxy.cleanupProxy(): the call of what toHandleMessage returned.
CleanupProxy(e) ==
    /\ cleanupFunction[e] # "none"
    /\ cleaned[e] = "no"
    /\ IF cleanupFunction[e] = "cleanup"
       THEN /\ onmessage' = [onmessage EXCEPT ![SideOf(e)] = ClearedSlot(@, e)]
            /\ cleaned' = [cleaned EXCEPT ![e] = "done"]
       ELSE /\ cleaned' = [cleaned EXCEPT ![e] = "TypeError"]
            /\ UNCHANGED onmessage
    /\ UNCHANGED <<transactions, nextTransactionIndex, promises, inbox,
                   handled, faults, cleanupFunction, injected, lastCall>>

\* An envelope arrives at a side whose handler slot is empty.
DropMessage(side) ==
    /\ onmessage[side] = "none"
    /\ \E message \in BagToSet(inbox[side]) :
          inbox' = [inbox EXCEPT ![side] = @ (-) SetToBag({message})]
    /\ UNCHANGED <<transactions, nextTransactionIndex, promises, handled,
                   faults, lifecycle, injected, lastCall>>

\* The proxy calls made while engines come and go: one that is answered with
\* a value and one that is answered with an error, each in one way only.
LifeProxyNames(e) == ProxyNames(SideOf(e)) \ {"slow", "add"}

LifeNext ==
    \/ \E e \in {"UI", "UI2"} : \E prop \in LifeProxyNames(e) :
          /\ cleanupFunction[e] # "none"
          /\ ProxyCall(e, prop, <<>>)
    \/ \E e \in Engines : HandleMessage(e)
    \/ \E result \in AdapterResults : CreateEngine("UI2", result)
    \/ \E e \in {"UI", "UI2"} : CleanupProxy(e)
    \/ \E side \in Sides : DropMessage(side)

LifeSpec == Init /\ [][LifeNext]_vars

\* C15: once cleanupProxy() has run on an engine whose adapter returned a
\* cleanup function, that engine processes no envelope: it handles no call,
\* throws no fault, no promise of it changes and no entry leaves its register;
\* a promise made by a later proxy call stays pending too.
C15_Step ==
    \A e \in Engines :
        cleaned[e] = "done" =>
            /\ Len(handled'[e]) = Len(handled[e])
            /\ faults'[e] = faults[e]
            /\ \A i \in DOMAIN promises[e] :
                  /\ promises'[e][i] = promises[e][i]
            /\ DOMAIN transactions[e] \subseteq DOMAIN transactions'[e]
            /\ \A i \in DOMAIN promises'[e] :
                  i \notin DOMAIN promises[e] => promises'[e][i].state = "pending"

C15_NothingAfterCleanup == [][C15_Step]_vars

\* After the cleanup of the UI engine, a call it had issued was answered, the
\* answer arrived and was lost, and a call issued after the cleanup is
\* pending as well.
C15_Witness ==
    /\ cleaned["UI"] = "done"
    /\ Len(promises["UI"]) = 2
    /\ \A i \in DOMAIN promises["UI"] :
          /\ promises["UI"][i].state = "pending"
          /\ promises["UI"][i].transactionID \in DOMAIN transactions["UI"]
    /\ \E k \in DOMAIN handled["Plugin"] : handled["Plugin"][k].returns # <<>>
    /\ inbox["UI"] = EmptyBag

\* C17: whatever toHandleMessage returned, cleanupProxy is callable and the
\* call unregisters the handler of the engine.
C17_CleanupCallable ==
    \A e \in Engines :
        cleaned[e] # "no" => cleaned[e] = "done" /\ onmessage[SideOf(e)] # e

\* C19: a promise of an engine is settled only with the value or error of a
\* return envelope sent for a call of the same name and id, also when another
\* engine of the same side and name exists or existed.
C19_OwnEngineOnly ==
    \A e \in Engines : \A i \in DOMAIN promises[e] :
        LET p == promises[e][i]
        IN p.state # "pending" =>
              \E c \in Engines : \E k \in HandledOf(c, p.transactionID) :
                  LET h == handled[c][k]
                  IN /\ SideOf(c) = Other(SideOf(e))
                     /\ h.func = p.func
                     /\ \E j \in DOMAIN h.returns :
                           \/ p.state = "resolved" /\ p.result = h.returns[j].value
                           \/ p.state = "rejected" /\ p.result = h.returns[j].ex

\* C20: the handler of the second engine of a side stays registered until
\* that engine's own cleanupProxy() is called.
C20_OtherHandlerStays ==
    (cleanupFunction["UI2"] # "none" /\ cleaned["UI2"] = "no")
        => onmessage["UI"] = "UI2"

-----------------------------------------------------------------------------
\* A synchronous adapter: sendMessage calls the handler of the other side
\* before it returns, so the replies to a call envelope reach the caller's
\* handler while the proxy call is still inside sendMessage.

\* The envelope sent before the transaction is entered in the register.
ProxyCallOrderSendFirst == <<"send", "set">>

\* The two statements of the Promise executor, in order (lines 180-188).
ProxyCallOrder == <<"set", "send">>

\* The state of one engine that a return envelope acts on.
EngineState(s) ==
    [transactions |-> transactions[s], promises |-> promises[s],
     faults |-> faults[s]]

\* The return branch (lines 131-148) throws when the register has no
\* transaction for the id.
ReturnThrows(st, message) == MapGet(st.transactions, message.transactionID) = 0

\* The return branch (lines 131-148) applied to the state of one engine.
ReturnEffect(st, message) ==
    LET id == message.transactionID
        transaction == MapGet(st.transactions, id)
    IN IF transaction = 0
       THEN [st EXCEPT !.faults = @ \cup {[kind |-> "UnknownTransaction", id |-> id]}]
       ELSE [st EXCEPT
                !.promises[transaction] =
                    IF IsSuccess(message)
                    THEN Settle(@, "resolved", message.value, id)
                    ELSE Settle(@, "rejected", message.ex, id),
                !.transactions = MapDelete(@, id)]

\* sendMessage(message) for a return envelope: the caller's handler runs at
\* once, and what it throws comes out of sendMessage. Nothing is sent after a
\* throw that was not caught.
Post(run, message) ==
    IF run.threw THEN run
    ELSE [st |-> ReturnEffect(run.st, message),
          sent |-> Append(run.sent, message),
          threw |-> ReturnThrows(run.st, message)]

\* The envelope the catch block (lines 121-129) sends for an error that
\* sendMessage threw inside the try block.
CaughtSendError(id) ==
    ReturnMessage(id, Undefined, ErrorToWire(Err("Unknown transaction")))

\* The call branch (lines 72-129) of side s run against a caller in state st:
\* the replies in their order, each handled by the caller as it is sent. The
\* reply with the value of a synchronous method is sent inside the try block,
\* so an error thrown by that send is caught and answered by the catch block.
SyncReplies(st, s, message, outcome) ==
    LET replies == CallReplies(s, message, outcome)
        F[i \in 0..Len(replies)] ==
            IF i = 0 THEN [st |-> st, sent |-> <<>>, threw |-> FALSE]
            ELSE Post(F[i - 1], replies[i])
        end == F[Len(replies)]
        inTry == outcome.kind = "return" /\ ~IsPromise(outcome.v)
    IN IF end.threw /\ inTry /\ Len(end.sent) = Len(replies)
       THEN Post([end EXCEPT !.threw = FALSE], CaughtSendError(message.transactionID))
       ELSE end

\* An executor that throws rejects its Promise, when it is still pending.
ExecutorThrew(p) ==
    IF p.state = "pending"
    THEN [p EXCEPT !.state = "rejected", !.result = Err("Unknown transaction")]
    ELSE p

\* proxy[prop](...args) over a synchronous adapter (lines 169-190): the two
\* statements of the executor in their order, the call branch of the other
\* side running inside sendMessage.
SyncProxyCall(s, prop, args) ==
    /\ Len(promises[s]) < MaxCalls
    /\ Len(promises["UI"]) + Len(promises["Plugin"]) < MaxTotalCalls
    /\ LET id == MakeTransactionID(s, nextTransactionIndex[s])
           i == Len(promises[s]) + 1
           p == [transactionID |-> id, func |-> prop, state |-> "pending",
                 result |-> Undefined, settledBy |-> NoTransactionID,
                 settlements |-> 0]
           message == CallMessage(id, prop, args)
           created == [EngineState(s) EXCEPT !.promises = Append(@, p)]
           Set(st) == [st EXCEPT !.transactions = MapSet(@, id, i)]
       IN \E outcome \in CallOutcomes(Other(s), message) :
            LET run == IF ProxyCallOrder[1] = "set"
                       THEN SyncReplies(Set(created), Other(s), message, outcome)
                       ELSE SyncReplies(created, Other(s), message, outcome)
                after == IF run.threw
                         THEN [run.st EXCEPT !.promises[i] = ExecutorThrew(@)]
                         ELSE IF ProxyCallOrder[1] = "set" THEN run.st
                         ELSE Set(run.st)
                h == [HandledRecord(Other(s), message, outcome)
                          EXCEPT !.returns = run.sent]
            IN /\ nextTransactionIndex' =
                      [nextTransactionIndex EXCEPT ![s] = NextIndex(@)]
               /\ promises' = [promises EXCEPT ![s] = after.promises]
               /\ transactions' = [transactions EXCEPT ![s] = after.transactions]
               /\ handled' = [handled EXCEPT ![Other(s)] = Append(@, h)]
               /\ faults' = [faults EXCEPT
                      ![s] = after.faults,
                      ![Other(s)] = IF run.threw
                                    THEN @ \cup {[kind |-> "UnknownTransaction",
                                                  id |-> id]}
                                    ELSE @]
               /\ lastCall' = [engine |-> s, prop |-> prop, args |-> args,
                               sent |-> <<message>> \o run.sent]
    /\ UNCHANGED <<inbox, lifecycle, injected>>

\* The Promise a method returned settles (lines 93-109) and its reaction
\* sends the return envelope through the synchronous adapter.
SyncSettleAsync(s) ==
    \E k \in DOMAIN handled[s] :
        /\ handled[s][k].promise = "pending"
        /\ \E state \in {"fulfilled", "rejected"} :
           \E v \in IF state = "fulfilled" THEN ReturnValues ELSE ThrownValues :
              LET h == handled[s][k]
                  reply == IF state = "fulfilled"
                           THEN ReturnMessage(h.transactionID, v, Undefined)
                           ELSE ReturnMessage(h.transactionID, Undefined,
                                              ErrorToWire(v))
                  run == Post([st |-> EngineState(Other(s)), sent |-> <<>>,
                               threw |-> FALSE], reply)
              IN /\ handled' = [handled EXCEPT ![s][k] =
                        [h EXCEPT !.promise = state, !.settledWith = v,
                                  !.returns = @ \o run.sent]]
                 /\ promises' = [promises EXCEPT ![Other(s)] = run.st.promises]
                 /\ transactions' =
                        [transactions EXCEPT ![Other(s)] = run.st.transactions]
                 /\ faults' = [faults EXCEPT ![Other(s)] = run.st.faults]
        /\ UNCHANGED <<nextTransactionIndex, inbox, lifecycle, injected, lastCall>>

SyncNext ==
    \/ \E s \in Sides : \E prop \in ProxyNames(s) : \E args \in ArgLists :
          SyncProxyCall(s, prop, args)
    \/ \E s \in Sides : SyncSettleAsync(s)

SyncSpec == Init /\ [][SyncNext]_vars

\* The return envelopes among those a proxy call handed to sendMessage.
ReturnsSent(sent) == {j \in DOMAIN sent : sent[j].type = "return"}

\* C16: a proxy call enters its transaction in the register before it hands
\* the call envelope to sendMessage, and sends exactly one call envelope, which
\* carries the id minted for the call, the property name and the argument
\* list. So when sendMessage delivers the reply before it returns, the reply
\* finds the transaction and settles the promise of the call, and the handler
\* throws no unknown-transaction error for it; when no reply was delivered,
\* the transaction is in the register and the promise is pending.
C16_Step ==
    \A s \in Sides :
        Len(promises'[s]) = Len(promises[s]) + 1 =>
            LET i == Len(promises'[s])
                p == promises'[s][i]
                id == p.transactionID
                sent == lastCall'.sent
                returns == ReturnsSent(sent)
            IN /\ lastCall'.engine = s
               /\ {j \in DOMAIN sent : sent[j].type = "call"} = {1}
               /\ sent[1] = CallMessage(id, lastCall'.prop, lastCall'.args)
               /\ p.func = lastCall'.prop
               /\ id \notin DOMAIN transactions[s]
               /\ \A j \in DOMAIN promises[s] : promises[s][j].transactionID # id
               /\ IF returns = {}
                  THEN /\ p.state = "pending"
                       /\ MapGet(transactions'[s], id) = i
                  ELSE LET first == sent[CHOOSE j \in returns :
                                             \A k \in returns : j <= k]
                       IN /\ p.settledBy = id
                          /\ p.state = IF IsSuccess(first) THEN "resolved"
                                       ELSE "rejected"
                          /\ p.result = IF IsSuccess(first) THEN first.value
                                        ELSE first.ex
                          /\ id \notin DOMAIN transactions'[s]
               /\ Cardinality(returns) <= 1 => faults'[s] = faults[s]

C16_RegisteredBeforeSend == [][C16_Step]_vars

\* A call of a synchronous method whose reply came back inside sendMessage
\* and resolved the promise of the call, with no error thrown.
C16_Witness ==
    /\ lastCall.engine = "UI"
    /\ lastCall.prop = "add"
    /\ Cardinality(ReturnsSent(lastCall.sent)) = 1
    /\ LET p == promises["UI"][Len(promises["UI"])]
       IN /\ p.state = "resolved"
          /\ p.result = Num("5")
          /\ p.settledBy = p.transactionID
    /\ faults["UI"] = {}
    /\ transactions["UI"] = EmptyMap

====
